---- MODULE Spec2Model ----
(***************************************************************************)
(* s3mover: the transport engine of src/transporter.go (Transporter.run,   *)
(* runOnce, process, upload, loadFile, genKey, listFiles), the weighted    *)
(* semaphore it drives, and the Metrics counters of the stats server file. *)
(***************************************************************************)
EXTENDS Integers, Sequences, FiniteSets, TLC

\* ------------------------------------------------------------------ bounds
\* Largest -parallels value drawn at start-up (0 is accepted by Validate).
MaxParallelsBound == 2
\* Files an external writer may still drop into the source directory.
MaxWrites == 1
\* Failures the environment may inject (listing, open, put, remove).
MaxFaults == 1
\* Modification times run over 1..MaxTime.
MaxTime == 2
\* Goroutines of TestMetrics (the test starts 100).
MaxCallers == 3
\* loadFile calls with gzip that run at the same time.
MaxLoaders == 2

\* Ticks of model time per hour, the granularity of DefaultTimeFormat.
TicksPerHour == 2

\* --------------------------------------------------- the source directory
\* File names are sequences of characters.
DotFoo == <<".", "f">>
Foo == <<"f">>
Bar == <<"b">>
Baz == <<"z">>
SubDir == <<"d">>

\* Every name the directory may hold, in the order os.ReadDir returns them
\* (sorted by file name; '.' sorts before the letters).
DirOrder == <<DotFoo, Bar, SubDir, Foo, Baz>>

Names == {DirOrder[i] : i \in 1..Len(DirOrder)}

Absent == [exists |-> FALSE, isDir |-> FALSE, modTime |-> 0]

RegularFile(t) == [exists |-> TRUE, isDir |-> FALSE, modTime |-> t]

Directory(t) == [exists |-> TRUE, isDir |-> TRUE, modTime |-> t]

ModTimes == 1..MaxTime

\* time.Now() of the start-up probe
StartTimes == {MaxTime}

\* --------------------------------------------------------------- constants
DefaultTimeFormat == "2006/01/02/15"

\* the layout of the README's -time-format default and of TestGenKey's keys
MinuteTimeFormat == "2006/01/02/15/04"

TestObjectKey == <<".", "s3mover-test-object">>

KeyPrefix == "prefix"

NoJob == [pc |-> "none", path |-> <<>>, ts |-> 0, err |-> "none"]

Callers == 1..MaxCallers

\* TestGenKey has not run
NoKeyTest ==
    [called |-> FALSE, prefix |-> "", name |-> <<>>, ts |-> 0, gz |-> FALSE,
     format |-> "", key |-> <<>>]

Loaders == 1..MaxLoaders

\* no loadFile call with gzip is under way
NoLoad == [pc |-> "none", level |-> 0, file |-> FALSE, buf |-> 0, body |-> 0]

\* the pool before its first Get: nothing pooled, no buffer made by New
EmptyPool == [free |-> {}, made |-> 0]

\* a TestMetrics goroutine that has not been started
NoCall == [pc |-> "none", success |-> TRUE, old |-> 0]

VARIABLES
    config,          \* Config: MaxParallels, Gzip, TimeFormat
    eagerCancel,     \* the build's semaphore.Acquire refuses a free unit once
                     \* ctx is done (newer x/sync) or still takes it (older);
                     \* read only once ctx is done, and drawn at that moment
    fs,              \* the source directory: name -> entry
    objects,         \* keys of the objects the bucket holds
    metrics,         \* Metrics.Objects: uploaded, errored, queued
    cancelled,       \* ctx.Done() is closed
    crashed,         \* a goroutine panicked: the process is gone
    pc,              \* position of the supervisor (Run / run / runOnce / sleep)
    paths,           \* runOnce: the listing of the current cycle
    idx,             \* runOnce: index of the next path to launch
    total,           \* runOnce: total
    processed,       \* runOnce: processed
    wg,              \* runOnce: the WaitGroup counter
    jobs,            \* the goroutines of the current cycle, by index in paths
    cur,             \* semaphore.Weighted.cur of tr.sem
    pendingRelease,  \* goroutines past wg.Done() whose deferred Release is due
    writes,          \* files the external writer has created
    faults,          \* failures injected so far
    callers,         \* TestMetrics: the goroutines calling Metrics.PutObject
    keyTest,         \* TestGenKey: the arguments of one genKey call, its result
    pool,            \* the sync.Pool of gzip buffers
    loaders          \* concurrent loadFile calls with gzip, and their uploads

vars == <<config, eagerCancel, fs, objects, metrics, cancelled, crashed, pc,
          paths, idx, total, processed, wg, jobs, cur, pendingRelease, writes,
          faults, callers, keyTest, pool, loaders>>

MaxJobs == Len(DirOrder)

\* ------------------------------------------------------------- pure parts
\* strings.HasPrefix(name, ".")
HasDotPrefix(name) == Len(name) > 0 /\ name[1] = "."

IgnoredDirsOnly(entry, name) == entry.isDir

\* listFiles: "ignore directories and hidden files"
Ignored(entry, name) == entry.isDir \/ HasDotPrefix(name)

listFilesRepeatsFirst(dir) ==
    LET keep == SelectSeq(DirOrder, LAMBDA n : dir[n].exists /\ ~Ignored(dir[n], n))
    IN  IF keep = <<>> THEN keep ELSE Append(keep, keep[1])

listFilesOmitsLast(dir) ==
    SelectSeq(DirOrder, LAMBDA n : /\ dir[n].exists
                                   /\ ~Ignored(dir[n], n)
                                   /\ n # DirOrder[Len(DirOrder)])

\* listFiles over the directory dir, in ReadDir order
listFiles(dir) ==
    SelectSeq(DirOrder, LAMBDA n : dir[n].exists /\ ~Ignored(dir[n], n))

\* time.Time.Format: the layout "2006/01/02/15" keeps the hour, the layout
\* "2006/01/02/15/04" the hour and the minute (a tick of model time); any
\* other layout is taken to keep the full tick.
FormatTime(format, ts) ==
    CASE format = "2006/01/02/15" -> <<format, ts \div TicksPerHour>>
      [] format = "2006/01/02/15/04" ->
             <<format, ts \div TicksPerHour, ts % TicksPerHour>>
      [] OTHER -> <<format, ts>>

\* filepath.Join of a prefix, a formatted time and a file name: an empty
\* element is dropped
Join(prefix, time, name) ==
    (IF prefix = "" THEN <<>> ELSE <<prefix>>) \o <<time>> \o name

genKeyAlwaysGz(prefix, name, ts, gz, format) ==
    LET f == IF format = "" THEN DefaultTimeFormat ELSE format
    IN  Append(Join(prefix, FormatTime(f, ts), name), ".gz")

genKeyWithoutName(prefix, name, ts, gz, format) ==
    LET f == IF format = "" THEN DefaultTimeFormat ELSE format
        key == <<prefix, FormatTime(f, ts)>>
    IN  IF gz THEN Append(key, ".gz") ELSE key

\* genKey
genKey(prefix, name, ts, gz, format) ==
    LET f == IF format = "" THEN DefaultTimeFormat ELSE format
        key == Join(prefix, FormatTime(f, ts), name)
    IN  IF gz THEN Append(key, ".gz") ELSE key

PutObjectIgnoresOutcome(m, success) == [m EXCEPT !.uploaded = @ + 1]

\* Metrics.PutObject
PutObject(m, success) ==
    IF success THEN [m EXCEPT !.uploaded = @ + 1]
    ELSE [m EXCEPT !.errored = @ + 1]

\* Metrics.SetQueued; no function of the engine calls it
SetQueued(m, n) == [m EXCEPT !.queued = n]

\* --------------------------------------------------------------- start-up
Init ==
    /\ config \in [MaxParallels : 0..MaxParallelsBound, Gzip : BOOLEAN,
                   TimeFormat : {""}]
    /\ eagerCancel = FALSE
    /\ fs = [n \in Names |->
               CASE n = DotFoo -> RegularFile(1)
                 [] n = SubDir -> Directory(1)
                 [] n = Foo -> RegularFile(1)
                 [] n = Bar -> RegularFile(1)
                 [] OTHER -> Absent]
    /\ objects = {}
    /\ metrics = [uploaded |-> 0, errored |-> 0, queued |-> 0]
    /\ cancelled = FALSE
    /\ crashed = FALSE
    /\ pc = "init"
    /\ paths = <<>>
    /\ idx = 1
    /\ total = 0
    /\ processed = 0
    /\ wg = 0
    /\ jobs = [j \in 1..MaxJobs |-> NoJob]
    /\ cur = 0
    /\ pendingRelease = 0
    /\ writes = 0
    /\ faults = 0
    /\ callers = [g \in Callers |-> NoCall]
    /\ keyTest = NoKeyTest
    /\ pool = EmptyPool
    /\ loaders = [g \in Loaders |-> NoLoad]

\* A failure of the environment may be injected while the budget lasts.
MayFail == faults < MaxFaults

init_okCounted ==
    /\ ~crashed
    /\ pc = "init"
    /\ pc' = "top"
    /\ metrics' = PutObject(metrics, TRUE)
    /\ \E now \in StartTimes :
         objects' = objects \cup
             {genKey(KeyPrefix, TestObjectKey, now, FALSE, config.TimeFormat)}
    /\ UNCHANGED <<config, eagerCancel, fs, cancelled, crashed, paths, idx,
                   total, processed, wg, jobs, cur, pendingRelease, writes,
                   faults, callers, keyTest, pool, loaders>>

\* Transporter.init succeeds: the directory is there, the .start probe file
\* is created and removed, the probe object is put; Run starts run.
init_ok ==
    /\ ~crashed
    /\ pc = "init"
    /\ pc' = "top"
    /\ \E now \in StartTimes :
         objects' = objects \cup
             {genKey(KeyPrefix, TestObjectKey, now, FALSE, config.TimeFormat)}
    /\ UNCHANGED <<config, eagerCancel, fs, metrics, cancelled, crashed,
                   paths, idx, total, processed, wg, jobs, cur,
                   pendingRelease, writes, faults, callers, keyTest, pool,
                   loaders>>

init_errIgnored ==
    /\ ~crashed
    /\ pc = "init"
    /\ pc' = "top"
    /\ UNCHANGED <<config, eagerCancel, fs, objects, metrics, cancelled,
                   crashed, paths, idx, total, processed, wg, jobs, cur,
                   pendingRelease, writes, faults, callers, keyTest, pool,
                   loaders>>

\* Transporter.init fails (stat, not a directory, create, remove or put):
\* Run returns the error and never starts run.
init_err ==
    /\ ~crashed
    /\ pc = "init"
    /\ pc' = "failed"
    /\ UNCHANGED <<config, eagerCancel, fs, objects, metrics, cancelled,
                   crashed, paths, idx, total, processed, wg, jobs, cur,
                   pendingRelease, writes, faults, callers, keyTest, pool,
                   loaders>>

\* ------------------------------------------------------------ Transporter.run
RunCtxIgnored == FALSE

\* run: select { case <-ctx.Done(): return ctx.Err(); default: }
RunCtxDone == cancelled

AfterRunOnceErrReturns == "terminated"

AfterRunOnceErrNoSleep == "top"

\* run: runOnce returned an error: sleep(RetryWait), continue
AfterRunOnceErr == "sleep"

AfterRunOnceAlwaysSleeps(p, t) == "sleep"

AfterRunOnceNoBackoff(p, t) == IF t = 0 THEN "sleep" ELSE "top"

AfterRunOnceIdleReturns(p, t) ==
    IF t = 0 THEN "terminated"
    ELSE IF p > 0 /\ p = t THEN "top"
    ELSE "sleep"

AfterRunOnceRetriesAtOnce(p, t) ==
    IF t = 0 THEN "sleep"
    ELSE IF p = 0 \/ p = t THEN "top"
    ELSE "sleep"

\* run: the branches on (processed, total) of a runOnce without error
AfterRunOnce(p, t) ==
    IF t = 0 THEN "sleep"
    ELSE IF p > 0 /\ p = t THEN "top"
    ELSE "sleep"

NoNeedToProcessOffByOne(ps) == Len(ps) <= 1

\* runOnce: if len(paths) == 0 { return 0, 0, nil }
NoNeedToProcess(ps) == Len(ps) = 0

run_ctxDone ==
    /\ ~crashed
    /\ pc = "top"
    /\ RunCtxDone
    /\ pc' = "terminated"
    /\ UNCHANGED <<config, eagerCancel, fs, objects, metrics, cancelled,
                   crashed, paths, idx, total, processed, wg, jobs, cur,
                   pendingRelease, writes, faults, callers, keyTest, pool,
                   loaders>>

runOnce_listErrCounted ==
    /\ ~crashed
    /\ pc = "top"
    /\ ~RunCtxDone
    /\ MayFail
    /\ faults' = faults + 1
    /\ pc' = AfterRunOnceErr
    /\ metrics' = PutObject(metrics, FALSE)
    /\ UNCHANGED <<config, eagerCancel, fs, objects, cancelled, crashed,
                   paths, idx, total, processed, wg, jobs, cur,
                   pendingRelease, writes, callers, keyTest, pool, loaders>>

\* runOnce: listFiles failed; run sleeps and continues.
runOnce_listErr ==
    /\ ~crashed
    /\ pc = "top"
    /\ ~RunCtxDone
    /\ MayFail
    /\ faults' = faults + 1
    /\ pc' = AfterRunOnceErr
    /\ UNCHANGED <<config, eagerCancel, fs, objects, metrics, cancelled,
                   crashed, paths, idx, total, processed, wg, jobs, cur,
                   pendingRelease, writes, callers, keyTest, pool, loaders>>

\* runOnce: listFiles succeeded. With nothing listed runOnce returns (0,0)
\* and run takes its total == 0 branch; otherwise the launch loop starts.
runOnce_list ==
    /\ ~crashed
    /\ pc = "top"
    /\ ~RunCtxDone
    /\ LET ps == listFiles(fs) IN
         IF NoNeedToProcess(ps)
         THEN /\ pc' = AfterRunOnce(0, 0)
              /\ UNCHANGED <<paths, idx, total, processed, jobs>>
         ELSE /\ pc' = "spawn"
              /\ paths' = ps
              /\ idx' = 1
              /\ total' = Len(ps)
              /\ processed' = 0
              /\ jobs' = [j \in 1..MaxJobs |-> NoJob]
    /\ UNCHANGED <<config, eagerCancel, fs, objects, metrics, cancelled,
                   crashed, wg, cur, pendingRelease, writes, faults, callers,
                   keyTest, pool, loaders>>

LaunchStopsAtError ==
    /\ wg' = wg + 1
    /\ jobs' = [jobs EXCEPT ![idx] =
                  [pc |-> "load", path |-> paths[idx], ts |-> 0, err |-> "none"]]
    /\ idx' = idx + 1
    /\ pc' = IF idx = Len(paths) \/ \E j \in 1..MaxJobs : jobs[j].err # "none"
             THEN "wait" ELSE "spawn"

\* go func() { ... tr.process(ctx, path) ... }() for paths[idx]
Launch ==
    /\ wg' = wg + 1
    /\ jobs' = [jobs EXCEPT ![idx] =
                  [pc |-> "load", path |-> paths[idx], ts |-> 0, err |-> "none"]]
    /\ idx' = idx + 1
    /\ pc' = IF idx = Len(paths) THEN "wait" ELSE "spawn"

\* semaphore.Weighted.Acquire(ctx, 1) takes a unit: s.size - s.cur >= 1,
\* and ctx is not done or the build does not look at it first
AcquireSucceeds ==
    /\ config.MaxParallels - cur >= 1
    /\ ~(eagerCancel /\ cancelled)

\* semaphore.Weighted.Acquire(ctx, 1) returns ctx.Err() and takes nothing:
\* ctx is done while it waits for a unit, or (newer builds) on entry
AcquireFails ==
    /\ cancelled
    /\ (eagerCancel \/ config.MaxParallels - cur < 1)

\* runOnce loop body: wg.Add(1); tr.sem.Acquire(ctx, 1) took a unit; go func
runOnce_spawn ==
    /\ ~crashed
    /\ pc = "spawn"
    /\ AcquireSucceeds
    /\ cur' = cur + 1
    /\ Launch
    /\ UNCHANGED <<config, eagerCancel, fs, objects, metrics, cancelled,
                   crashed, paths, total, processed, pendingRelease, writes,
                   faults, callers, keyTest, pool, loaders>>

\* runOnce loop body: tr.sem.Acquire(ctx, 1) returned an error, which the
\* loop does not look at; the goroutine is launched all the same.
runOnce_spawnUnacquired ==
    /\ ~crashed
    /\ pc = "spawn"
    /\ AcquireFails
    /\ Launch
    /\ UNCHANGED <<config, eagerCancel, fs, objects, metrics, cancelled,
                   crashed, paths, total, processed, cur, pendingRelease,
                   writes, faults, callers, keyTest, pool, loaders>>

WaitDoneNoWait == TRUE

\* wg.Wait() returns when the counter is 0
WaitDone == wg = 0

\* runOnce: wg.Wait(); return processed, total, nil; run branches on them
runOnce_wait ==
    /\ ~crashed
    /\ pc = "wait"
    /\ WaitDone
    /\ pc' = AfterRunOnce(processed, total)
    /\ UNCHANGED <<config, eagerCancel, fs, objects, metrics, cancelled,
                   crashed, paths, idx, total, processed, wg, jobs, cur,
                   pendingRelease, writes, faults, callers, keyTest, pool,
                   loaders>>

\* Transporter.sleep: the timer fires
sleep_timer ==
    /\ ~crashed
    /\ pc = "sleep"
    /\ pc' = "top"
    /\ UNCHANGED <<config, eagerCancel, fs, objects, metrics, cancelled,
                   crashed, paths, idx, total, processed, wg, jobs, cur,
                   pendingRelease, writes, faults, callers, keyTest, pool,
                   loaders>>

\* Transporter.sleep: case <-ctx.Done(): return
sleep_ctxDone ==
    /\ ~crashed
    /\ pc = "sleep"
    /\ cancelled
    /\ pc' = "top"
    /\ UNCHANGED <<config, eagerCancel, fs, objects, metrics, cancelled,
                   crashed, paths, idx, total, processed, wg, jobs, cur,
                   pendingRelease, writes, faults, callers, keyTest, pool,
                   loaders>>

\* ------------------------------------------- the goroutine of one job
SetJob(j, next, ts, err) ==
    jobs' = [jobs EXCEPT ![j] = [@ EXCEPT !.pc = next, !.ts = ts, !.err = err]]

AfterUploadAlwaysRemoves(ok) == "remove"

AfterUploadPutsAgain(ok) == IF ok THEN "remove" ELSE "put"

\* process: if err := tr.upload(ctx, path); err != nil { return ... };
\* os.Remove(path) follows a nil error only
AfterUpload(ok) == IF ok THEN "remove" ELSE "report"

loadFile_okWallClock(j) ==
    /\ ~crashed
    /\ jobs[j].pc = "load"
    /\ fs[jobs[j].path].exists
    /\ \E now \in ModTimes : SetJob(j, "put", now, "none")
    /\ UNCHANGED <<config, eagerCancel, fs, objects, metrics, cancelled,
                   crashed, pc, paths, idx, total, processed, wg, cur,
                   pendingRelease, writes, faults, callers, keyTest, pool,
                   loaders>>

\* upload: loadFile opened and statted the file; ts is its ModTime()
loadFile_ok(j) ==
    /\ ~crashed
    /\ jobs[j].pc = "load"
    /\ fs[jobs[j].path].exists
    /\ SetJob(j, "put", fs[jobs[j].path].modTime, "none")
    /\ UNCHANGED <<config, eagerCancel, fs, objects, metrics, cancelled,
                   crashed, pc, paths, idx, total, processed, wg, cur,
                   pendingRelease, writes, faults, callers, keyTest, pool,
                   loaders>>

\* upload: loadFile failed; upload and process return the error
loadFile_err(j) ==
    /\ ~crashed
    /\ jobs[j].pc = "load"
    /\ MayFail
    /\ faults' = faults + 1
    /\ SetJob(j, AfterUpload(FALSE), 0, "load")
    /\ UNCHANGED <<config, eagerCancel, fs, objects, metrics, cancelled,
                   crashed, pc, paths, idx, total, processed, wg, cur,
                   pendingRelease, writes, callers, keyTest, pool, loaders>>

upload_okWallClock(j) ==
    /\ ~crashed
    /\ jobs[j].pc = "put"
    /\ \E now \in ModTimes :
         objects' = objects \cup
             {genKey(KeyPrefix, jobs[j].path, now, config.Gzip,
                     config.TimeFormat)}
    /\ SetJob(j, AfterUpload(TRUE), jobs[j].ts, "none")
    /\ UNCHANGED <<config, eagerCancel, fs, metrics, cancelled, crashed, pc,
                   paths, idx, total, processed, wg, cur, pendingRelease,
                   writes, faults, callers, keyTest, pool, loaders>>

\* upload: tr.s3.PutObject succeeded under genKey(prefix, base, ts, gz, format)
upload_ok(j) ==
    /\ ~crashed
    /\ jobs[j].pc = "put"
    /\ objects' = objects \cup
           {genKey(KeyPrefix, jobs[j].path, jobs[j].ts, config.Gzip,
                   config.TimeFormat)}
    /\ SetJob(j, AfterUpload(TRUE), jobs[j].ts, "none")
    /\ UNCHANGED <<config, eagerCancel, fs, metrics, cancelled, crashed, pc,
                   paths, idx, total, processed, wg, cur, pendingRelease,
                   writes, faults, callers, keyTest, pool, loaders>>

\* upload: tr.s3.PutObject failed
upload_err(j) ==
    /\ ~crashed
    /\ jobs[j].pc = "put"
    /\ MayFail
    /\ faults' = faults + 1
    /\ SetJob(j, AfterUpload(FALSE), jobs[j].ts, "upload")
    /\ UNCHANGED <<config, eagerCancel, fs, objects, metrics, cancelled,
                   crashed, pc, paths, idx, total, processed, wg, cur,
                   pendingRelease, writes, callers, keyTest, pool, loaders>>

\* process: os.Remove(path) succeeded
remove_ok(j) ==
    /\ ~crashed
    /\ jobs[j].pc = "remove"
    /\ fs' = [fs EXCEPT ![jobs[j].path] = Absent]
    /\ SetJob(j, "report", jobs[j].ts, jobs[j].err)
    /\ UNCHANGED <<config, eagerCancel, objects, metrics, cancelled, crashed,
                   pc, paths, idx, total, processed, wg, cur, pendingRelease,
                   writes, faults, callers, keyTest, pool, loaders>>

\* process: os.Remove(path) failed
remove_err(j) ==
    /\ ~crashed
    /\ jobs[j].pc = "remove"
    /\ MayFail
    /\ faults' = faults + 1
    /\ SetJob(j, "report", jobs[j].ts,
              IF jobs[j].err = "none" THEN "cleanup" ELSE jobs[j].err)
    /\ UNCHANGED <<config, eagerCancel, fs, objects, metrics, cancelled,
                   crashed, pc, paths, idx, total, processed, wg, cur,
                   pendingRelease, writes, callers, keyTest, pool, loaders>>

reportCountsEveryJob(j) ==
    /\ ~crashed
    /\ jobs[j].pc = "report"
    /\ metrics' = PutObject(metrics, jobs[j].err = "none")
    /\ processed' = processed + 1
    /\ wg' = wg - 1
    /\ pendingRelease' = pendingRelease + 1
    /\ SetJob(j, "finished", jobs[j].ts, jobs[j].err)
    /\ UNCHANGED <<config, eagerCancel, fs, objects, cancelled, crashed, pc,
                   paths, idx, total, cur, writes, faults, callers, keyTest,
                   pool, loaders>>

\* runOnce goroutine, after process returned: tr.metrics.PutObject(err == nil),
\* on success atomic.AddInt64(&processed, 1), then the deferred wg.Done();
\* the deferred Release is still due
report(j) ==
    /\ ~crashed
    /\ jobs[j].pc = "report"
    /\ metrics' = PutObject(metrics, jobs[j].err = "none")
    /\ processed' = IF jobs[j].err = "none" THEN processed + 1 ELSE processed
    /\ wg' = wg - 1
    /\ pendingRelease' = pendingRelease + 1
    /\ SetJob(j, "finished", jobs[j].ts, jobs[j].err)
    /\ UNCHANGED <<config, eagerCancel, fs, objects, cancelled, crashed, pc,
                   paths, idx, total, cur, writes, faults, callers, keyTest,
                   pool, loaders>>

\* runOnce goroutine: defer tr.sem.Release(1). semaphore.Weighted.Release
\* panics with "semaphore: released more than held" when cur drops below 0.
Release ==
    /\ ~crashed
    /\ pendingRelease > 0
    /\ pendingRelease' = pendingRelease - 1
    /\ cur' = cur - 1
    /\ crashed' = (cur - 1 < 0)
    /\ UNCHANGED <<config, eagerCancel, fs, objects, metrics, cancelled, pc,
                   paths, idx, total, processed, wg, jobs, writes, faults,
                   callers, keyTest, pool, loaders>>

\* ------------------------------------------------------- the environment
\* The shutdown signal cancels ctx.
Cancel ==
    /\ ~crashed
    /\ ~cancelled
    /\ pc \notin {"terminated", "failed"}
    /\ cancelled' = TRUE
    /\ eagerCancel' \in BOOLEAN
    /\ UNCHANGED <<config, fs, objects, metrics, crashed, pc, paths, idx,
                   total, processed, wg, jobs, cur, pendingRelease, writes,
                   faults, callers, keyTest, pool, loaders>>

\* The names the external writer drops files under.
WriterNames == {Baz}

\* An external writer creates a regular file that is not there.
Write(n, t) ==
    /\ ~crashed
    /\ writes < MaxWrites
    /\ pc \notin {"terminated", "failed"}
    /\ ~fs[n].exists
    /\ fs' = [fs EXCEPT ![n] = RegularFile(t)]
    /\ writes' = writes + 1
    /\ UNCHANGED <<config, eagerCancel, objects, metrics, cancelled, crashed,
                   pc, paths, idx, total, processed, wg, jobs, cur,
                   pendingRelease, faults, callers, keyTest, pool, loaders>>

\* ------------------------------------------------------ specifications
Supervisor ==
    \/ init_ok
    \/ init_err
    \/ run_ctxDone
    \/ runOnce_list
    \/ runOnce_listErr
    \/ runOnce_spawn
    \/ runOnce_spawnUnacquired
    \/ runOnce_wait
    \/ sleep_timer
    \/ sleep_ctxDone

Worker(j) ==
    \/ loadFile_ok(j)
    \/ loadFile_err(j)
    \/ upload_ok(j)
    \/ upload_err(j)
    \/ remove_ok(j)
    \/ remove_err(j)
    \/ report(j)

Environment ==
    \/ Cancel
    \/ \E n \in WriterNames, t \in ModTimes : Write(n, t)

Next ==
    \/ Supervisor
    \/ \E j \in 1..MaxJobs : Worker(j)
    \/ Release
    \/ Environment

Spec == Init /\ [][Next]_vars

\* The engine with no shutdown signal, at least one unit of parallelism, a
\* start-up check that passes, and every put and every remove succeeding.
\* Listing and opening a file may still fail while the fault budget lasts.
LiveSupervisor ==
    \/ init_ok
    \/ runOnce_list
    \/ runOnce_listErr
    \/ runOnce_spawn
    \/ runOnce_wait
    \/ sleep_timer

LiveWorker(j) ==
    \/ loadFile_ok(j)
    \/ loadFile_err(j)
    \/ upload_ok(j)
    \/ remove_ok(j)
    \/ report(j)

LiveNext ==
    \/ LiveSupervisor
    \/ \E j \in 1..MaxJobs : LiveWorker(j)
    \/ Release
    \/ \E n \in WriterNames, t \in ModTimes : Write(n, t)

\* The Go scheduler runs every runnable goroutine, the timer of sleep fires,
\* and every storage and filesystem call returns; the writer owes nothing.
LiveInit ==
    /\ Init
    /\ config.MaxParallels >= 1

LiveSpec ==
    /\ LiveInit
    /\ [][LiveNext]_vars
    /\ WF_vars(LiveSupervisor)
    /\ \A j \in 1..MaxJobs : WF_vars(LiveWorker(j))
    /\ WF_vars(Release)

\* --------------------------------------------------------- TestMetrics
\* MaxCallers goroutines on one Metrics, each calling m.PutObject(true) and
\* then m.PutObject(false). atomic.AddInt64 is taken as the load and
\* compare-and-swap loop it stands for: the new value is stored only if the
\* word still holds the value loaded, else the loop starts over.
engine == <<config, eagerCancel, fs, objects, cancelled, crashed, pc, paths,
            idx, total, processed, wg, jobs, cur, pendingRelease, writes,
            faults>>

\* the counter that PutObject(success) adds to
Counter(m, success) == IF success THEN m.uploaded ELSE m.errored

CompareAndSwapBlind(cur_, old) == TRUE

CompareAndSwap(cur_, old) == cur_ = old

\* where the goroutine stands after PutObject(success) returned
AfterPutObject(success) ==
    IF success THEN [pc |-> "load", success |-> FALSE, old |-> 0]
    ELSE [pc |-> "done", success |-> FALSE, old |-> 0]

\* atomic.AddInt64: load the word
AddInt64_load(g) ==
    /\ callers[g].pc = "load"
    /\ callers' = [callers EXCEPT ![g] =
                      [@ EXCEPT !.pc = "cas",
                                !.old = Counter(metrics,
                                                callers[g].success)]]
    /\ UNCHANGED <<metrics, engine, keyTest, pool, loaders>>

\* atomic.AddInt64: store old + 1 if the word still holds old, else retry
AddInt64_cas(g) ==
    /\ callers[g].pc = "cas"
    /\ IF CompareAndSwap(Counter(metrics, callers[g].success), callers[g].old)
       THEN /\ metrics' =
                  IF callers[g].success
                  THEN [metrics EXCEPT !.uploaded = callers[g].old + 1]
                  ELSE [metrics EXCEPT !.errored = callers[g].old + 1]
            /\ callers' =
                  [callers EXCEPT ![g] = AfterPutObject(callers[g].success)]
       ELSE /\ callers' = [callers EXCEPT ![g] = [@ EXCEPT !.pc = "load"]]
            /\ UNCHANGED metrics
    /\ UNCHANGED <<engine, keyTest, pool, loaders>>

\* s3mover.NewMetrics() and the go statements of the test's loop; the engine
\* is not started.
MetricsInit ==
    /\ config = [MaxParallels |-> 1, Gzip |-> FALSE, TimeFormat |-> ""]
    /\ eagerCancel = FALSE
    /\ fs = [n \in Names |-> Absent]
    /\ objects = {}
    /\ metrics = [uploaded |-> 0, errored |-> 0, queued |-> 0]
    /\ keyTest = NoKeyTest
    /\ pool = EmptyPool
    /\ loaders = [g \in Loaders |-> NoLoad]
    /\ cancelled = FALSE
    /\ crashed = FALSE
    /\ pc = "init"
    /\ paths = <<>>
    /\ idx = 1
    /\ total = 0
    /\ processed = 0
    /\ wg = 0
    /\ jobs = [j \in 1..MaxJobs |-> NoJob]
    /\ cur = 0
    /\ pendingRelease = 0
    /\ writes = 0
    /\ faults = 0
    /\ callers = [g \in Callers |-> [pc |-> "load", success |-> TRUE, old |-> 0]]

MetricsNext == \E g \in Callers : AddInt64_load(g) \/ AddInt64_cas(g)

MetricsSpec == MetricsInit /\ [][MetricsNext]_vars

\* ----------------------------------------------------------- TestGenKey
\* One call of genKey on arguments drawn from the test's table (prefix,
\* name, gzip), a time, and a layout; the engine is not started.
Prefixes == {"", "xxx"}

TimeFormats == {"", DefaultTimeFormat, MinuteTimeFormat}

\* a Transporter that New built on config c and that was never run, with
\* nothing around it
Built(c) ==
    /\ config = c
    /\ eagerCancel = FALSE
    /\ fs = [n \in Names |-> Absent]
    /\ objects = {}
    /\ metrics = [uploaded |-> 0, errored |-> 0, queued |-> 0]
    /\ cancelled = FALSE
    /\ crashed = FALSE
    /\ pc = "init"
    /\ paths = <<>>
    /\ idx = 1
    /\ total = 0
    /\ processed = 0
    /\ wg = 0
    /\ jobs = [j \in 1..MaxJobs |-> NoJob]
    /\ cur = 0
    /\ pendingRelease = 0
    /\ writes = 0
    /\ faults = 0

NotStarted == Built([MaxParallels |-> 1, Gzip |-> FALSE, TimeFormat |-> ""])

GenKeyInit ==
    /\ NotStarted
    /\ callers = [g \in Callers |-> NoCall]
    /\ pool = EmptyPool
    /\ loaders = [g \in Loaders |-> NoLoad]
    /\ keyTest \in [called : {FALSE}, prefix : Prefixes, name : {Foo, Bar, Baz},
                    ts : ModTimes, gz : BOOLEAN, format : TimeFormats,
                    key : {<<>>}]

\* key := s3mover.GenKey(p.prefix, p.name, now, p.gz, format)
TestGenKey_call ==
    /\ ~keyTest.called
    /\ keyTest' = [keyTest EXCEPT
                     !.called = TRUE,
                     !.key = genKey(keyTest.prefix, keyTest.name, keyTest.ts,
                                    keyTest.gz, keyTest.format)]
    /\ UNCHANGED <<engine, metrics, callers, pool, loaders>>

GenKeyNext == TestGenKey_call

GenKeySpec == GenKeyInit /\ [][GenKeyNext]_vars

\* ------------------------------------------------------------ loadFile
\* MaxLoaders calls of loadFile(path, gz, level) at the same time, as the
\* goroutines of one cycle make them with MaxParallels = MaxLoaders, each
\* followed by the put of upload that reads the body loadFile returned. The
\* engine's loadFile_ok and upload_ok take these steps in one; here they are
\* apart, with the file handle and the buffer pool between them.
GzipLevels == {6, 10}

\* gzip.NewWriterLevel accepts HuffmanOnly (-2) to BestCompression (9)
ValidLevel(level) == level >= -2 /\ level <= 9

returnToPoolDrops(p, b) == p

\* the func() that getBufferFromPool returns: buf.Reset(); pool.Put(buf)
returnToPool(p, b) == [p EXCEPT !.free = @ \cup {b}]

LoaderInit ==
    /\ \E gz \in BOOLEAN :
         Built([MaxParallels |-> MaxLoaders, Gzip |-> gz, TimeFormat |-> ""])
    /\ callers = [g \in Callers |-> NoCall]
    /\ keyTest = NoKeyTest
    /\ pool = EmptyPool
    /\ loaders \in [Loaders -> {[pc |-> "call", level |-> l, file |-> FALSE,
                                  buf |-> 0, body |-> 0] : l \in GzipLevels}]

\* loadFile: f, err := os.Open(path) fails; no handle was made
loadFile_openErr(g) ==
    /\ loaders[g].pc = "call"
    /\ loaders' = [loaders EXCEPT ![g] = [@ EXCEPT !.pc = "failed"]]
    /\ UNCHANGED <<engine, metrics, callers, keyTest, pool>>

\* loadFile: os.Open passed and f.Stat() fails; return, f is left as it is
loadFile_statErr(g) ==
    /\ loaders[g].pc = "call"
    /\ loaders' = [loaders EXCEPT ![g] =
                      [@ EXCEPT !.pc = "failed", !.file = TRUE]]
    /\ UNCHANGED <<engine, metrics, callers, keyTest, pool>>

\* loadFile: os.Open and f.Stat passed; the handle f is open
loadFile_open(g) ==
    /\ loaders[g].pc = "call"
    /\ loaders' = [loaders EXCEPT ![g] = [@ EXCEPT !.pc = "open", !.file = TRUE]]
    /\ UNCHANGED <<engine, metrics, callers, keyTest, pool>>

\* loadFile without gzip: body = f; return; upload goes on to the put
loadFile_plain(g) ==
    /\ loaders[g].pc = "open"
    /\ ~config.Gzip
    /\ loaders' = [loaders EXCEPT ![g] = [@ EXCEPT !.pc = "put"]]
    /\ UNCHANGED <<engine, metrics, callers, keyTest, pool>>

\* loadFile with gzip: getBufferFromPool: pool.Get() hands out a pooled
\* buffer, or a buffer that New makes
loadFile_getBuffer(g) ==
    /\ loaders[g].pc = "open"
    /\ config.Gzip
    /\ \/ \E b \in pool.free :
            /\ pool' = [pool EXCEPT !.free = @ \ {b}]
            /\ loaders' = [loaders EXCEPT ![g] =
                              [@ EXCEPT !.pc = "gzip", !.buf = b]]
       \/ /\ pool' = [pool EXCEPT !.made = @ + 1]
          /\ loaders' = [loaders EXCEPT ![g] =
                            [@ EXCEPT !.pc = "gzip", !.buf = pool.made + 1]]
    /\ UNCHANGED <<engine, metrics, callers, keyTest>>

\* loadFile: gzip.NewWriterLevel fails; return, the deferred returnToPool runs
loadFile_newWriterErr(g) ==
    /\ loaders[g].pc = "gzip"
    /\ ~ValidLevel(loaders[g].level)
    /\ pool' = returnToPool(pool, loaders[g].buf)
    /\ loaders' = [loaders EXCEPT ![g] = [@ EXCEPT !.pc = "failed", !.buf = 0]]
    /\ UNCHANGED <<engine, metrics, callers, keyTest>>

\* loadFile: io.Copy(gw, f) fails; return, the deferred returnToPool runs
loadFile_copyErr(g) ==
    /\ loaders[g].pc = "gzip"
    /\ ValidLevel(loaders[g].level)
    /\ pool' = returnToPool(pool, loaders[g].buf)
    /\ loaders' = [loaders EXCEPT ![g] = [@ EXCEPT !.pc = "failed", !.buf = 0]]
    /\ UNCHANGED <<engine, metrics, callers, keyTest>>

\* loadFile: the file is compressed into buf; body reads buf.Bytes();
\* return, the deferred returnToPool runs; upload goes on to the put
loadFile_return(g) ==
    /\ loaders[g].pc = "gzip"
    /\ ValidLevel(loaders[g].level)
    /\ pool' = returnToPool(pool, loaders[g].buf)
    /\ loaders' = [loaders EXCEPT ![g] =
                      [@ EXCEPT !.pc = "put", !.buf = 0,
                                !.body = loaders[g].buf]]
    /\ UNCHANGED <<engine, metrics, callers, keyTest>>

\* upload: defer body.Close(). Without gzip body is f and Close closes the
\* handle; with gzip body is io.NopCloser(...) and Close does nothing.
BodyClose(open) == IF config.Gzip THEN open ELSE FALSE

\* upload: tr.s3.PutObject has read body and returned nil; body.Close()
upload_bodyRead(g) ==
    /\ loaders[g].pc = "put"
    /\ loaders' = [loaders EXCEPT ![g] =
                      [@ EXCEPT !.pc = "done", !.body = 0,
                                !.file = BodyClose(loaders[g].file)]]
    /\ UNCHANGED <<engine, metrics, callers, keyTest, pool>>

\* upload: tr.s3.PutObject returned an error; body.Close()
upload_putErr(g) ==
    /\ loaders[g].pc = "put"
    /\ loaders' = [loaders EXCEPT ![g] =
                      [@ EXCEPT !.pc = "failed", !.body = 0,
                                !.file = BodyClose(loaders[g].file)]]
    /\ UNCHANGED <<engine, metrics, callers, keyTest, pool>>

Loader(g) ==
    \/ loadFile_openErr(g)
    \/ loadFile_statErr(g)
    \/ loadFile_open(g)
    \/ loadFile_plain(g)
    \/ loadFile_getBuffer(g)
    \/ loadFile_newWriterErr(g)
    \/ loadFile_copyErr(g)
    \/ loadFile_return(g)
    \/ upload_bodyRead(g)
    \/ upload_putErr(g)

LoaderNext == \E g \in Loaders : Loader(g)

LoaderSpec == LoaderInit /\ [][LoaderNext]_vars

\* ------------------------------------------------------------ vocabulary
\* process(path) has been called and has not returned
InProcess(j) == jobs[j].pc \in {"load", "put", "remove"}

\* the goroutine of the job has not yet called wg.Done()
InFlight(j) == jobs[j].pc \in {"load", "put", "remove", "report"}

JobIds == 1..MaxJobs

\* the supervisor is outside runOnce
OutsideRunOnce == pc \in {"top", "sleep", "terminated"}

Started == pc \notin {"init", "failed"}

KeyOf(n, t) == genKey(KeyPrefix, n, t, config.Gzip, config.TimeFormat)

\* ------------------------------------------------------------------ C1
C1_DeleteStep ==
    \A n \in Names :
        (fs[n].exists /\ ~fs'[n].exists) =>
            \E j \in JobIds :
                /\ jobs[j].path = n
                /\ jobs[j].pc = "remove"
                /\ jobs[j].err = "none"
                /\ KeyOf(n, jobs[j].ts) \in objects

C1_FailedPutKeepsFile ==
    \A j \in JobIds :
        jobs[j].err = "upload" => /\ fs[jobs[j].path].exists
                                  /\ jobs[j].pc \in {"report", "finished"}

\* C1: a local file disappears only in the remove step of a job whose put
\* returned success in that same process call (the object is in the bucket),
\* and a job whose put failed goes straight to its report with the file
\* still in the directory.
C1_DeleteOnlyAfterPutSuccess ==
    [](C1_FailedPutKeepsFile) /\ [][C1_DeleteStep]_vars

C1_Witness ==
    /\ \E j \in JobIds :
         /\ jobs[j].pc = "report"
         /\ jobs[j].err = "none"
         /\ ~fs[jobs[j].path].exists
         /\ KeyOf(jobs[j].path, jobs[j].ts) \in objects
    /\ \E j \in JobIds : jobs[j].err = "upload" /\ fs[jobs[j].path].exists

\* ------------------------------------------------------------------ C2
Undotted == {n \in Names : ~HasDotPrefix(n)}

Uploadable == {n \in Undotted : ~fs[n].isDir}

Excluded == {n \in Names : HasDotPrefix(n) \/ fs[n].isDir}

\* C3: no job ever runs on a directory or on a dot-prefixed name; the dot
\* file and the directory of the source directory stay where they are and
\* the bucket holds no object made from them.
C3_DotAndDirNeverProcessed ==
    /\ \A j \in JobIds :
         jobs[j].pc # "none" =>
             ~HasDotPrefix(jobs[j].path) /\ ~fs[jobs[j].path].isDir
    /\ fs[DotFoo] = RegularFile(1)
    /\ fs[SubDir] = Directory(1)
    /\ \A n \in Excluded : \A t \in ModTimes : \A gz \in BOOLEAN :
         genKey(KeyPrefix, n, t, gz, config.TimeFormat) \notin objects

C3_Witness ==
    /\ metrics.uploaded >= 2
    /\ pc = "spawn"
    /\ idx > 1
    /\ Excluded = {DotFoo, SubDir}

\* ------------------------------------------------------------------ C4
\* C4: at most N process calls are active at any moment.
C4_AtMostNInProcess ==
    (config.MaxParallels >= 1 /\ ~eagerCancel) =>
        Cardinality({j \in JobIds : InProcess(j)}) <= config.MaxParallels

\* ------------------------------------------------------------------ C5
\* C5: whenever the supervisor is outside runOnce, no goroutine of a cycle
\* is short of its wg.Done(): runOnce returned after all of them, and the
\* next listing (the next cycle's jobs) comes after that.
C5_CycleIsBarrier ==
    OutsideRunOnce => \A j \in JobIds : jobs[j].pc \in {"none", "finished"}

C5_Witness ==
    /\ pc = "top"
    /\ Len(paths) >= 2
    /\ \A j \in 1..Len(paths) : jobs[j].pc = "finished"

\* ------------------------------------------------------------------ C6
\* C6: once the shutdown signal is up, the supervisor loop is over (run
\* returned, or the process is gone) only with every process call of the
\* cycle completed.
C6_InFlightWorkersComplete ==
    (/\ config.MaxParallels >= 1
     /\ ~eagerCancel
     /\ cancelled
     /\ (pc = "terminated" \/ crashed))
        => \A j \in JobIds : ~InProcess(j)

\* ------------------------------------------------------------------ C7
Progress == Supervisor \/ (\E j \in JobIds : Worker(j)) \/ Release

\* C7: after the shutdown signal a started supervisor reaches Terminated:
\* short of Terminated, a step of the engine is always possible.
C7_CancelLeadsToTerminated ==
    (config.MaxParallels >= 1 /\ ~eagerCancel /\ cancelled /\ Started)
        => (pc = "terminated" \/ ENABLED Progress)

\* ------------------------------------------------------------------ C8
C8_NoDispatchAfterSleep ==
    /\ (cancelled /\ pc = "sleep") => pc' \in {"sleep", "top"}
    /\ (cancelled /\ pc = "top") => pc' \in {"top", "terminated"}

C8_SleepLeftAtOnce ==
    (cancelled /\ pc = "sleep" /\ ~crashed) => ENABLED sleep_ctxDone

\* C8: a sleeping supervisor whose ctx is cancelled can leave the sleep on
\* the spot (no timer needed); it comes back to the loop's ctx check and
\* from there goes to Terminated, with no listing and no job in between.
C8_CancelDuringSleepTerminates ==
    [](C8_SleepLeftAtOnce) /\ [][C8_NoDispatchAfterSleep]_vars

C8_Witness ==
    /\ pc = "sleep"
    /\ cancelled
    /\ ~crashed
    /\ pendingRelease = 0

\* ------------------------------------------------------------------ C9
\* C9: a started supervisor is over (run returned, or the process is gone)
\* only after the shutdown signal; with no signal, whatever failed so far,
\* a step of the engine is always possible.
C9_OnlyCancelStopsLoop ==
    /\ (pc = "terminated" \/ crashed) => cancelled
    /\ (Started /\ ~cancelled /\ config.MaxParallels >= 1) => ENABLED Progress

C9_Witness ==
    /\ ~cancelled
    /\ faults = MaxFaults
    /\ metrics.errored >= 1
    /\ pc = "spawn"
    /\ idx = 1

\* ------------------------------------------------------------------ C10
\* C10: when runOnce returns processed = total > 0, the supervisor's next
\* position is the top of the loop, not the sleep.
C10_FullSuccessNoSleep ==
    [][(pc = "wait" /\ pc' # "wait" /\ total > 0 /\ processed = total)
           => pc' = "top"]_vars

C10_Witness ==
    /\ pc = "top"
    /\ total > 0
    /\ processed = total
    /\ metrics.uploaded = total

\* ------------------------------------------------------------------ C11
\* the only way out of the sleep is back to the top of run's loop
SleepThenTop == pc = "sleep" => pc' \in {"sleep", "top"}

C11_PartialStep ==
    (pc = "wait" /\ pc' # "wait" /\ 0 < processed /\ processed < total)
        => pc' = "sleep"

\* C11: when runOnce returns 0 < processed < total, the supervisor's next
\* position is the sleep, and the sleep is left only for the top of the loop,
\* so the next listing comes after the retry interval.
C11_PartialSuccessSleeps == [][C11_PartialStep /\ SleepThenTop]_vars

C11_Witness ==
    /\ pc = "sleep"
    /\ total = 2
    /\ processed = 1
    /\ \E j \in JobIds : jobs[j].pc = "finished" /\ jobs[j].err # "none"
    /\ \E j \in JobIds : jobs[j].pc = "finished" /\ jobs[j].err = "none"

\* ------------------------------------------------------------------ C12
\* the step of runOnce in which listFiles fails
C12_ListErrStep == pc = "top" /\ faults' = faults + 1

C12_SleepsAfterListErr ==
    /\ C12_ListErrStep => pc' = "sleep"
    /\ (pc = "sleep" /\ faults' = faults) => pc' \in {"sleep", "top"}

C12_LoopGoesOn ==
    /\ (pc = "sleep" /\ ~crashed) => ENABLED sleep_timer
    /\ (pc = "top" /\ ~crashed /\ ~cancelled) => ENABLED runOnce_list

\* C12: a failed listing sends the supervisor to the sleep and nowhere else;
\* the sleep ends at the top of the loop, where, unless ctx is cancelled,
\* runOnce is invoked again.
C12_ListErrorSleepsAndRetries ==
    [](C12_LoopGoesOn) /\ [][C12_SleepsAfterListErr]_vars

C12_Witness ==
    /\ pc = "spawn"
    /\ faults = 1
    /\ ~cancelled
    /\ metrics.uploaded = 0
    /\ metrics.errored = 0
    /\ \A j \in JobIds : jobs[j].pc = "none"

\* ------------------------------------------------------------------ C13
\* the step of runOnce whose listing is empty
C13_EmptyListStep ==
    /\ pc = "top"
    /\ pc' # "top"
    /\ ~cancelled
    /\ faults' = faults
    /\ listFiles(fs) = <<>>

\* C13: a cycle that lists nothing takes no unit of the semaphore, launches
\* no goroutine and touches neither the directory, the bucket nor Metrics;
\* the supervisor's next position is the sleep. The launch loop is entered
\* with a non-empty listing only.
C13_EmptyCycleSleeps ==
    /\ [](pc \in {"spawn", "wait"} => (total >= 1 /\ Len(paths) = total))
    /\ [][C13_EmptyListStep =>
            /\ pc' = "sleep"
            /\ UNCHANGED <<cur, wg, jobs, pendingRelease, total, processed,
                           metrics, objects, fs>>]_vars
    /\ [][SleepThenTop]_vars

C13_Witness ==
    /\ pc = "sleep"
    /\ listFiles(fs) = <<>>
    /\ metrics.uploaded >= 2
    /\ cur = 0
    /\ pendingRelease = 0
    /\ ~cancelled

\* ------------------------------------------------------------------ C14
\* jobs of the current cycle that are over, by outcome
Succeeded == {j \in JobIds : jobs[j].pc = "finished" /\ jobs[j].err = "none"}

Failed == {j \in JobIds : jobs[j].pc = "finished" /\ jobs[j].err # "none"}

\* every goroutine of the cycle was launched and called wg.Done()
CycleCompleted == pc # "spawn" /\ wg = 0

\* C14: processed never exceeds total; once the cycle is completed,
\* processed is the number of jobs whose process call returned nil and
\* total - processed the number of jobs whose process call returned an error.
C14_ProcessedPlusFailedIsTotal ==
    /\ processed <= total
    /\ CycleCompleted =>
         /\ processed = Cardinality(Succeeded)
         /\ total - processed = Cardinality(Failed)

C14_Witness ==
    /\ pc = "wait"
    /\ wg = 0
    /\ total = 2
    /\ processed = 1
    /\ Cardinality(Failed) = 1

\* ------------------------------------------------------------------ C15
\* the goroutines that report their outcome in this step
Reporting == {j \in JobIds : jobs[j].pc = "report" /\ jobs'[j].pc = "finished"}

C15_OneIncrementPerJob ==
    /\ metrics'.uploaded >= metrics.uploaded
    /\ metrics'.errored >= metrics.errored
    /\ (metrics'.uploaded - metrics.uploaded)
           + (metrics'.errored - metrics.errored) = Cardinality(Reporting)
    /\ \A j \in Reporting :
         IF jobs[j].err = "none"
         THEN metrics'.uploaded = metrics.uploaded + 1
         ELSE metrics'.errored = metrics.errored + 1

\* C15: a step changes the counters only when a job reports, and then it
\* adds one to uploaded (process returned nil) or one to errored (it returned
\* an error) and leaves the other alone; no step lowers a counter. Within a
\* cycle the counters have grown by at least the jobs over so far.
C15_MetricsCountJobs ==
    /\ [](metrics.uploaded >= processed /\
          metrics.errored >= Cardinality(Failed))
    /\ [][C15_OneIncrementPerJob]_vars

C15_Witness ==
    /\ pc = "wait"
    /\ wg = 0
    /\ metrics.uploaded = 3
    /\ metrics.errored = 1
    /\ processed < metrics.uploaded

\* ------------------------------------------------------------------ C16
\* the goroutines whose PutObject(true) returned
PutTrueDone == {g \in Callers : ~callers[g].success}

\* the goroutines whose PutObject(false) returned
PutFalseDone == {g \in Callers : callers[g].pc = "done"}

\* C16: in every interleaving of the goroutines of TestMetrics, uploaded is
\* the number of PutObject(true) calls that returned and errored the number
\* of PutObject(false) calls that returned; with all MaxCallers goroutines
\* done both are MaxCallers.
C16_NoLostUpdate ==
    /\ metrics.uploaded = Cardinality(PutTrueDone)
    /\ metrics.errored = Cardinality(PutFalseDone)
    /\ (\A g \in Callers : callers[g].pc = "done") =>
           (metrics.uploaded = MaxCallers /\ metrics.errored = MaxCallers)

C16_Witness ==
    /\ \A g \in Callers : callers[g].pc = "done"
    /\ metrics.uploaded = MaxCallers
    /\ metrics.errored = MaxCallers

\* ------------------------------------------------------------------ C17
\* candidates of the most recent listing whose job is not over
Backlog == {i \in 1..Len(paths) : jobs[i].pc # "finished"}

\* C17: Metrics.queued is the number of candidate files of the most recent
\* cycle whose job has not yet completed.
C17_QueuedIsBacklog ==
    config.MaxParallels >= 1 => metrics.queued = Cardinality(Backlog)

\* ------------------------------------------------------------------ C18
\* the probe object of Transporter.init is in the bucket
ProbePut ==
    \E now \in StartTimes :
        genKey(KeyPrefix, TestObjectKey, now, FALSE, config.TimeFormat)
            \in objects

\* the engine has done nothing: nothing listed, no job, no unit taken, no
\* object, both candidate files in place, the counters at 0
Untouched ==
    /\ paths = <<>>
    /\ \A j \in JobIds : jobs[j] = NoJob
    /\ wg = 0
    /\ cur = 0
    /\ objects = {}
    /\ fs[Foo] = RegularFile(1)
    /\ fs[Bar] = RegularFile(1)
    /\ metrics = [uploaded |-> 0, errored |-> 0, queued |-> 0]

\* C18: the supervisor loop runs only after the start-up check passed (its
\* probe object was put); when the check fails Run is over for good, with
\* nothing listed, uploaded, deleted or counted, then or later.
C18_InitFailureIsFatal ==
    /\ [](Started => ProbePut)
    /\ [](pc = "failed" => Untouched)
    /\ [][pc = "failed" => pc' = "failed"]_vars

C18_Witness ==
    /\ pc = "failed"
    /\ ~cancelled
    /\ listFiles(fs) = <<Bar, Foo>>

\* ------------------------------------------------------------------ C19
\* the key of an upload attempt is made of the name and of the modification
\* time the file has at that moment
C19_AttemptUsesModTime ==
    \A j \in JobIds :
        jobs[j].pc = "put" => fs[jobs[j].path] = RegularFile(jobs[j].ts)

\* an object enters the bucket under the key of an attempt (or is the probe)
C19_PutStep ==
    \A k \in objects' \ objects :
        \/ pc = "init"
        \/ \E j \in JobIds :
              /\ jobs[j].pc = "put"
              /\ k = KeyOf(jobs[j].path, fs[jobs[j].path].modTime)

\* the files that are never written again: all their attempts are retries
\* of the same file, and one key is all the bucket ever holds for them
C19_OneKeyPerFile ==
    \A n \in Undotted \ WriterNames : \A t \in ModTimes :
        KeyOf(n, t) \in objects => KeyOf(n, t) = KeyOf(n, 1)

\* C19: every upload attempt, first or retry, uses the key that genKey makes
\* of the configuration (which never changes), the file name and the
\* file's modification time; attempts on an unchanged file in different
\* cycles therefore use one and the same key.
C19_KeyStableAcrossRetries ==
    /\ [](C19_AttemptUsesModTime /\ C19_OneKeyPerFile)
    /\ [][C19_PutStep /\ config' = config]_vars

C19_Witness ==
    /\ paths = <<Bar>>
    /\ jobs[1].pc = "remove"
    /\ fs[Bar] = RegularFile(1)
    /\ metrics.errored >= 1
    /\ KeyOf(Bar, 1) \in objects

\* ------------------------------------------------------------------ C20
\* the put of job j succeeds in this step, on a file whose earlier put
\* succeeded too: the object of its name and modification time is in the
\* bucket and the file is still in the directory
C20_RetryPut(j) ==
    /\ jobs[j].pc = "put"
    /\ jobs'[j].pc = "remove"
    /\ fs[jobs[j].path].exists
    /\ KeyOf(jobs[j].path, fs[jobs[j].path].modTime) \in objects

\* a job whose remove failed after its put: the object is in the bucket, the
\* file is in the directory, and its report counts it as errored
C20_CleanupErrorKeepsFile ==
    \A j \in JobIds :
        jobs[j].err = "cleanup" =>
            /\ fs[jobs[j].path] = RegularFile(jobs[j].ts)
            /\ KeyOf(jobs[j].path, jobs[j].ts) \in objects
            /\ jobs[j].pc = "finished" =>
                   (metrics.errored >= 1 /\ processed < total)

\* C20 as claimed: the re-upload after a failed remove goes under a new key,
\* so the bucket gains a second object for the file.
C20_ReuploadUnderNewKey ==
    [][\A j \in JobIds : C20_RetryPut(j) => objects' # objects]_vars

\* C20: after a put that succeeded and a remove that failed the job counts
\* as errored and the file stays; the next cycle's put of the unchanged
\* file goes under the same key as the first, so the bucket holds the one
\* object it held before.
C20_ReuploadUnderSameKey ==
    /\ [](C20_CleanupErrorKeepsFile)
    /\ [][\A j \in JobIds : C20_RetryPut(j) => objects' = objects]_vars

C20_Witness ==
    /\ paths = <<Bar>>
    /\ jobs[1].pc = "put"
    /\ fs[Bar] = RegularFile(1)
    /\ KeyOf(Bar, 1) \in objects
    /\ metrics.errored = 1
    /\ metrics.uploaded = 1

\* ------------------------------------------------------------------ C21
\* a process call starts in this step for job j
C21_Invoked(j) == jobs[j].pc # "load" /\ jobs'[j].pc = "load"

\* the jobs of the cycle are the paths of its listing, in order: launched
\* up to idx while the loop runs, all of them once it is over
C21_JobsFollowListing ==
    /\ \A j \in JobIds :
         jobs[j].pc # "none" => (j <= Len(paths) /\ jobs[j].path = paths[j])
    /\ pc = "spawn" =>
         \A i \in 1..Len(paths) : (jobs[i].pc # "none") <=> (i < idx)
    /\ (pc = "wait" /\ Len(paths) > 0) =>
         \A i \in 1..Len(paths) : jobs[i].pc # "none"
    /\ (pc = "wait" /\ wg = 0) =>
         \A i \in 1..Len(paths) : jobs[i].pc = "finished"

\* C21: whatever the other jobs of the cycle returned, the launch loop goes
\* through the whole listing: process is called for a path exactly when the
\* loop reaches it, once, and when the cycle is over every listed path has
\* had its call.
C21_EveryCandidateInvokedOnce ==
    /\ [](C21_JobsFollowListing)
    /\ [][\A j \in JobIds :
             C21_Invoked(j) =>
                 (pc = "spawn" /\ j = idx /\ jobs[j].pc = "none")]_vars

C21_Witness ==
    /\ pc = "wait"
    /\ wg = 0
    /\ Len(paths) = 2
    /\ jobs[1].pc = "finished"
    /\ jobs[1].err = "upload"
    /\ jobs[2].pc = "finished"
    /\ jobs[2].err = "none"
    /\ ~cancelled

\* ------------------------------------------------------------------ C22
\* C22: the step in which listFiles fails changes nothing but the
\* supervisor's position: no goroutine, no unit of the semaphore, no object,
\* no file removed, no counter.
C22_ListErrorHasNoEffect ==
    [][C12_ListErrStep =>
          UNCHANGED <<jobs, wg, cur, pendingRelease, objects, fs, metrics,
                      paths, total, processed>>]_vars

C22_Witness ==
    /\ pc = "sleep"
    /\ faults = 1
    /\ paths = <<>>
    /\ cur = 0
    /\ metrics = [uploaded |-> 0, errored |-> 0, queued |-> 0]
    /\ Cardinality(objects) = 1
    /\ fs[Foo].exists
    /\ fs[Bar].exists

\* ------------------------------------------------------------------ C23
\* the key the claim expects of a call with the default layout: the prefix
\* (if any), the time down to the minute, the name, ".gz" with gzip
C23_ExpectedKey ==
    LET time == <<MinuteTimeFormat, keyTest.ts \div TicksPerHour,
                  keyTest.ts % TicksPerHour>>
        key == Join(keyTest.prefix, time, keyTest.name)
    IN  IF keyTest.gz THEN Append(key, ".gz") ELSE key

\* C23: genKey with an empty timeFormat returns prefix/2006/01/02/15/04 of
\* the time/name, with ".gz" appended when gzip is set.
C23_DefaultFormatKeepsMinute ==
    (keyTest.called /\ keyTest.format = "") => keyTest.key = C23_ExpectedKey

\* ------------------------------------------------------------------ C24
\* the layout in force: config.TimeFormat, or the default when it is empty
LayoutInForce ==
    IF config.TimeFormat = "" THEN DefaultTimeFormat ELSE config.TimeFormat

\* join(prefix, format(modification time), base name) of file n as it is in
\* the directory, with ".gz" iff gzip is configured
C24_KeyOfFile(n) ==
    LET key == <<KeyPrefix, FormatTime(LayoutInForce, fs[n].modTime)>> \o n
    IN  IF config.Gzip THEN Append(key, ".gz") ELSE key

\* the objects made from candidate files (the probe's name starts with a dot)
CandidateObjects == {k \in objects : k[3] # "."}

C24_UploadStep ==
    \A j \in JobIds :
        (jobs[j].pc = "put" /\ jobs'[j].pc = "remove") =>
            /\ C24_KeyOfFile(jobs[j].path) \in objects'
            /\ objects' \subseteq objects \cup {C24_KeyOfFile(jobs[j].path)}

\* C24: a put of the engine stores exactly one key, the join of the prefix,
\* the formatted modification time of the file and its base name, ending in
\* ".gz" iff config.Gzip; so does every candidate's object in the bucket.
C24_KeyIsPrefixTimeName ==
    /\ [](\A k \in CandidateObjects : (k[Len(k)] = ".gz") <=> config.Gzip)
    /\ [][C24_UploadStep]_vars

C24_Witness ==
    /\ config.Gzip
    /\ \E j \in JobIds :
         /\ jobs[j].pc = "remove"
         /\ jobs[j].path = Foo
         /\ <<KeyPrefix, <<DefaultTimeFormat, 0>>, "f", ".gz">> \in objects

\* ------------------------------------------------------------------ C25
\* modification times that the layout in force puts in one bucket
SameBucket(t1, t2) ==
    FormatTime(LayoutInForce, t1) = FormatTime(LayoutInForce, t2)

\* C25: under the configuration of the run (it never changes, so the keys
\* are compared once, at start), files of different names with modification
\* times of one bucket have different keys; the jobs of a cycle are on
\* different names, so no put of the cycle writes the key of another job.
C25_DifferentNamesDifferentKeys ==
    /\ pc = "init" =>
         \A n1 \in Undotted, n2 \in Undotted :
            \A t1 \in ModTimes, t2 \in ModTimes :
               (n1 # n2 /\ SameBucket(t1, t2)) => KeyOf(n1, t1) # KeyOf(n2, t2)
    /\ \A i \in JobIds, j \in JobIds :
         (i # j /\ jobs[i].pc # "none" /\ jobs[j].pc # "none") =>
             /\ jobs[i].path # jobs[j].path
             /\ SameBucket(jobs[i].ts, jobs[j].ts) =>
                    KeyOf(jobs[i].path, jobs[i].ts)
                        # KeyOf(jobs[j].path, jobs[j].ts)

C25_Witness ==
    /\ jobs[1].pc = "remove"
    /\ jobs[2].pc = "remove"
    /\ jobs[1].ts = jobs[2].ts
    /\ jobs[1].path # jobs[2].path
    /\ KeyOf(jobs[1].path, jobs[1].ts) \in objects
    /\ KeyOf(jobs[2].path, jobs[2].ts) \in objects
    /\ Cardinality(objects) = 3

\* ------------------------------------------------------------------ C26
\* the names in the listing of the current cycle
Listed == {paths[i] : i \in 1..Len(paths)}

InsideRunOnce == pc \in {"spawn", "wait"}

\* the regular non-dot files in the directory
Candidates == {n \in Undotted : fs[n].exists /\ ~fs[n].isDir}

\* while the cycle runs its listing and its total stay as they were, whatever
\* is written to the directory
C26_ListingFixed ==
    (InsideRunOnce /\ pc' \in {"spawn", "wait"}) =>
        UNCHANGED <<paths, total>>

\* a listing that starts a cycle holds every candidate then in the directory
C26_NextListingComplete ==
    (pc = "top" /\ pc' = "spawn") => (Listed' = Candidates /\ total' = Len(paths'))

\* C26: total is the length of the one listing of the cycle and the jobs are
\* on listed paths only; a file that appears while the cycle runs changes
\* neither, and the listing of the next cycle holds it.
C26_JobSetFixedByListing ==
    /\ [](InsideRunOnce =>
             /\ total = Len(paths)
             /\ \A j \in JobIds : jobs[j].pc # "none" => jobs[j].path \in Listed)
    /\ [][C26_ListingFixed /\ C26_NextListingComplete]_vars

C26_Witness ==
    /\ pc = "wait"
    /\ wg > 0
    /\ fs[Baz].exists
    /\ Baz \notin Listed
    /\ total = 2
    /\ \A j \in JobIds : jobs[j].path # Baz

\* ------------------------------------------------------------------ C27
\* job j makes its storage write attempt in this step
C27_PutAttempt(j) == jobs[j].pc = "put" /\ jobs'[j] # jobs[j]

\* job j makes its local delete attempt in this step
C27_DeleteAttempt(j) == jobs[j].pc = "remove" /\ jobs'[j] # jobs[j]

\* a process call goes forward only: load, then (unless loadFile failed) the
\* put, then (unless the put failed) the remove, then the report
C27_ForwardOnly ==
    \A j \in JobIds :
        /\ (jobs[j].pc = "load" /\ jobs'[j] # jobs[j]) =>
               \/ jobs'[j].pc = "put" /\ jobs'[j].err = "none"
               \/ jobs'[j].pc = "report" /\ jobs'[j].err = "load"
        /\ C27_PutAttempt(j) =>
               \/ jobs'[j].pc = "remove" /\ jobs'[j].err = "none"
               \/ jobs'[j].pc = "report" /\ jobs'[j].err = "upload"
        /\ C27_DeleteAttempt(j) =>
               /\ jobs'[j].pc = "report"
               /\ jobs'[j].err \in {"none", "cleanup"}
        /\ (jobs[j].pc = "report" /\ jobs'[j] # jobs[j]) =>
               (jobs'[j].pc = "finished" /\ jobs'[j].err = jobs[j].err)

\* C27 as claimed: every process call that is over has made its put attempt
\* and its delete attempt (its error, if any, is the remove's).
C27_OnePutOneDeletePerCall ==
    \A j \in JobIds :
        jobs[j].pc \in {"report", "finished"} =>
            jobs[j].err \in {"none", "cleanup"}

\* C27: a process call makes at most one storage write attempt and at most
\* one local delete attempt: none of either when loadFile failed, the put
\* alone when the put failed, and one of each otherwise.
C27_AtMostOnePutOneDelete == [][C27_ForwardOnly]_vars

C27_Witness ==
    /\ pc = "wait"
    /\ wg = 0
    /\ jobs[1].pc = "finished"
    /\ jobs[1].err = "none"
    /\ jobs[2].pc = "finished"
    /\ jobs[2].err = "load"
    /\ fs[jobs[2].path].exists
    /\ ~fs[jobs[1].path].exists

\* ------------------------------------------------------------------ C28
\* loadFile call g has a buffer checked out
Holding(g) == loaders[g].buf # 0

C28_Exclusive ==
    \A g \in Loaders :
        Holding(g) =>
            /\ loaders[g].pc = "gzip"
            /\ loaders[g].buf \notin pool.free
            /\ \A h \in Loaders \ {g} : loaders[h].buf # loaders[g].buf

\* loadFile call g returns in this step
C28_Returns(g) == loaders[g].pc = "gzip" /\ loaders'[g].pc # "gzip"

\* C28: a loadFile call holds a buffer only between its Get and its return;
\* the buffer is then neither in the pool nor held by another call; and on
\* every return (writer error, copy error, success) the buffer is back in
\* the pool in that same step.
C28_BufferReturnedAndExclusive ==
    /\ [](C28_Exclusive)
    /\ [][\A g \in Loaders :
             C28_Returns(g) =>
                 (loaders[g].buf \in pool'.free /\ ~Holding(g)')]_vars

C28_Witness ==
    /\ loaders[1].pc = "failed"
    /\ loaders[2].pc = "gzip"
    /\ loaders[2].buf = 1
    /\ pool = [free |-> {2}, made |-> 2]

\* ------------------------------------------------------------------ C29
\* C29: a Transporter that runs has MaxParallels >= 1.
C29_NeverStartsBelowOne == Started => config.MaxParallels >= 1

\* ------------------------------------------------------------------ C30
C30_InitStep ==
    (pc = "init" /\ pc' = "top") =>
        (objects' # objects /\ metrics' = metrics)

C30_UploadedStep ==
    (metrics'.uploaded # metrics.uploaded) =>
        \E j \in JobIds :
            /\ jobs[j].pc = "report"
            /\ jobs'[j].pc = "finished"
            /\ jobs[j].err = "none"
            /\ jobs[j].path \in Undotted
            /\ KeyOf(jobs[j].path, jobs[j].ts) \in objects

\* C30: the step in which init succeeds puts the probe object and leaves
\* the three counters at 0; they stay at 0 until a job reports; uploaded
\* changes only in the report of a job on a candidate file.
C30_ProbeNotCounted ==
    /\ []((ProbePut /\ paths = <<>>) =>
             metrics = [uploaded |-> 0, errored |-> 0, queued |-> 0])
    /\ [][C30_InitStep /\ C30_UploadedStep]_vars

C30_Witness ==
    /\ pc = "spawn"
    /\ idx = 1
    /\ ProbePut
    /\ Cardinality(objects) = 1
    /\ faults = 0
    /\ metrics = [uploaded |-> 0, errored |-> 0, queued |-> 0]

\* ------------------------------------------------------------------ C31
\* the put of upload call g is reading the bytes of buffer b
ReadsFrom(g, b) == loaders[g].pc = "put" /\ loaders[g].body = b /\ b # 0

\* C31: while the put of one job reads its payload, no other job holds, and
\* so writes into, the buffer whose bytes back that payload.
C31_PayloadNotOverwritten ==
    \A g \in Loaders : \A h \in Loaders \ {g} :
        ReadsFrom(g, loaders[g].body) => loaders[h].buf # loaders[g].body

\* ------------------------------------------------------------------ C34
\* the pipeline invocation of call g has returned
Returned(g) == loaders[g].pc \in {"done", "failed"}

\* C34: once the invocation that opened a file has returned, on whatever
\* path, its handle is closed.
C34_HandlesClosedOnReturn ==
    \A g \in Loaders : Returned(g) => ~loaders[g].file

\* ------------------------------------------------------------------ C32
\* tr.sem never holds a negative number of units: no Release runs without
\* the Acquire that took its unit
C32_NeverNegative == cur >= 0

\* no unit is held once runOnce has returned
C32_ZeroAtReturn == OutsideRunOnce => cur = 0

\* C32: with at least one unit to give, the units held are never negative (every release follows the
\* successful acquisition of its unit, also when ctx is cancelled during a
\* cycle), and none is held whenever runOnce has returned.
C32_SemaphoreBalanced ==
    config.MaxParallels >= 1 => (C32_NeverNegative /\ C32_ZeroAtReturn)

\* ------------------------------------------------------------------ C33
\* runOnce returns from a cycle in which no job succeeded
C33_AllFailedStep ==
    (pc = "wait" /\ pc' # "wait" /\ processed = 0 /\ total > 0)
        => pc' = "sleep"

\* a listing is taken from the top of run's loop only, never out of the sleep
C33_ListingFromTop ==
    (pc # "spawn" /\ pc' = "spawn") => pc = "top"

\* C33: when runOnce returns processed = 0 < total, the supervisor's next
\* position is the sleep; the sleep is left only for the top of the loop and
\* a listing starts only there, so the next dispatch comes after the retry
\* interval.
C33_AllFailedSleeps ==
    [][C33_AllFailedStep /\ C33_ListingFromTop /\ SleepThenTop]_vars

C33_Witness ==
    /\ pc = "sleep"
    /\ ~cancelled
    /\ total >= 1
    /\ processed = 0
    /\ wg = 0
    /\ \A j \in 1..total : jobs[j].pc = "finished" /\ jobs[j].err = "upload"

\* ------------------------------------------------------------------ C35
\* the goroutine of job j was launched in the current cycle
Launched(j) == jobs[j].pc # "none"

\* the jobs of one cycle are on pairwise different paths
C35_OneJobPerPath ==
    \A j1 \in JobIds : \A j2 \in JobIds \ {j1} :
        (Launched(j1) /\ Launched(j2)) => jobs[j1].path # jobs[j2].path

\* where the next listing is taken, no invocation of process is active
C35_NoneActiveAtListing == pc = "top" => \A j \in JobIds : ~InProcess(j)

\* C35: no two process calls are active on one path: the jobs of a cycle have
\* pairwise different paths, and the listing that gives a remaining file its
\* new job is taken only when no process call of the cycle before is active.
C35_NoTwoInvocationsOnOnePath == C35_OneJobPerPath /\ C35_NoneActiveAtListing

C35_Witness ==
    /\ metrics.uploaded = 1
    /\ metrics.errored = 1
    /\ total = 2
    /\ InProcess(1)
    /\ InProcess(2)
    /\ jobs[1].path # jobs[2].path
    /\ Baz \in {jobs[1].path, jobs[2].path}

==============================================================================
